---------------------------- MODULE Spec2Model ----------------------------
(***************************************************************************)
(* A model of simpleperf's RecordFileReader (record_file_reader.cpp): the  *)
(* reader of a perf.data-style record file through a read-only mapping.    *)
(*                                                                         *)
(* The file is held as typed regions: the header, the attribute table the  *)
(* header's attrs descriptor points at, the id array, the stream of        *)
(* self-length-prefixed records at data.offset, the table of section       *)
(* descriptors right after the data region, and the bytes of the feature   *)
(* payload.  Every read the reader makes is recorded as the byte range     *)
(* <<lo, hi>> (hi exclusive) it touches.                                   *)
(***************************************************************************)
EXTENDS Integers, Sequences, FiniteSets

(***************************************************************************)
(* Bounds of the model.                                                    *)
(***************************************************************************)
MaxRecs == 3
MaxFeat == 2
MaxArgs == 2
MaxArgLen == 2
MaxExplicitClose == 2
MaxCalls == 3
MaxWalkSteps == 9

(***************************************************************************)
(* Program constants: the values the code names, the descriptor open()     *)
(* returns, and the sizes of the structures it reads (a FileAttr being a   *)
(* perf_event_attr of 64 bytes and a SectionDesc).  FeatureBytes, the size *)
(* of the header's bitmap, is a bound: the format has 32 bytes.            *)
(***************************************************************************)
ClosedFd == -1
PERF_RECORD_MMAP == 1
PERF_RECORD_SAMPLE == 9
FEAT_CMDLINE == 11
FeatureBytes == 2
SizeofEventHeader == 8
SizeofSectionDesc == 16
SizeofId == 8
SizeofU32 == 4
SizeofFileHeader == 104
SizeofFileAttr == 80
BitsPerByte == 8
Fd == 3

(***************************************************************************)
(* The layout the fixtures use: where each region starts in the file.      *)
(***************************************************************************)
AttrOffset == SizeofFileHeader
IdsOffset == AttrOffset + 2 * SizeofFileAttr
DataOffset == IdsOffset + 2 * SizeofId

VARIABLES
    \* the file on disk (never written)
    fileLen, header, attrTable, idTable, stream, descTable, payloadAt, payload,
    \* the reader object
    record_fd_, mmap_addr_, mmap_len_, feature_sections_,
    \* the process: the descriptor and the mapping
    fdOpen, mapped,
    \* the object's lifetime and the call in progress
    life, pc, p, result, call, outcome, reads,
    \* counters of what has been done
    explicitCloses, closeCalls, fdCloses, unmaps, staleUnmaps, scans, calls, steps

fileVars == <<fileLen, header, attrTable, idTable, stream, descTable, payloadAt, payload>>
readerVars == <<record_fd_, mmap_addr_, mmap_len_>>
osVars == <<fdOpen, mapped>>
closeVars == <<explicitCloses, closeCalls, fdCloses, unmaps, staleUnmaps>>
walkVars == <<pc, p, steps>>
vars == <<fileVars, readerVars, feature_sections_, osVars, life, walkVars, result,
          call, outcome, reads, closeVars, scans, calls>>

(***************************************************************************)
(* Helpers.                                                                *)
(***************************************************************************)
Desc(o, s) == [offset |-> o, size |-> s]

Range(s) == {s[i] : i \in 1..Len(s)}

SeqsUpTo(S, n) == UNION {[1..k -> S] : k \in 0..n}

RECURSIVE SumSizes(_)
SumSizes(s) == IF s = <<>> THEN 0 ELSE s[1].size + SumSizes(Tail(s))

\* The reads of a call that touch a byte at or past offset lim.
ReadsPast(rs, lim) == {r \in rs : r[2] > lim}

\* A read is served by the mapping only inside [0, mmap_len_).
InMapping(lo, hi) == hi <= mmap_len_


(***************************************************************************)
(* The typed contents of the file.  A read outside the mapping is          *)
(* undefined: the call either faults or sees the zero fill of the last     *)
(* page, so every typed read has a zero value for that case.               *)
(***************************************************************************)
ZeroAttr == [sample_time |-> FALSE, sample_id_all |-> FALSE, ids |-> Desc(0, 0)]

ZeroHeader == [size |-> 0, type |-> 0, time |-> 0]

\* The FileAttr at byte offset o.
AttrAt(o) ==
    LET k == (o - AttrOffset) \div SizeofFileAttr + 1
    IN  IF /\ o >= AttrOffset
           /\ (o - AttrOffset) % SizeofFileAttr = 0
           /\ k <= Len(attrTable)
           /\ InMapping(o, o + SizeofFileAttr)
        THEN attrTable[k] ELSE ZeroAttr

\* The 8-byte id at byte offset o.
IdAt(o) ==
    LET k == (o - IdsOffset) \div SizeofId + 1
    IN  IF /\ o >= IdsOffset
           /\ (o - IdsOffset) % SizeofId = 0
           /\ k <= Len(idTable)
           /\ InMapping(o, o + SizeofId)
        THEN idTable[k] ELSE 0

(***************************************************************************)
(* unsigned a / b: division by zero is undefined, it traps (x86) or yields *)
(* 0 (ARM).                                                                *)
(***************************************************************************)
UDiv(a, b) ==
    IF b = 0 THEN {[trap |-> TRUE, q |-> 0], [trap |-> FALSE, q |-> 0]}
    ELSE {[trap |-> FALSE, q |-> a \div b]}

(***************************************************************************)
(* Close(): munmap, close, record_fd_ = -1.  munmap releases the mapping   *)
(* when there is one at mmap_addr_; close releases the descriptor when     *)
(* record_fd_ is the open one.                                             *)
(***************************************************************************)
CloseBody ==
    /\ closeCalls' = closeCalls + 1
    /\ IF mapped
       THEN /\ mapped' = FALSE
            /\ unmaps' = unmaps + 1
            /\ staleUnmaps' = staleUnmaps
       ELSE /\ mapped' = FALSE
            /\ unmaps' = unmaps
            /\ staleUnmaps' = staleUnmaps + 1
    /\ IF fdOpen /\ record_fd_ = Fd
       THEN fdOpen' = FALSE /\ fdCloses' = fdCloses + 1
       ELSE fdOpen' = fdOpen /\ fdCloses' = fdCloses
    /\ record_fd_' = ClosedFd
    /\ UNCHANGED <<mmap_addr_, mmap_len_>>

\* A destructor that closes whatever Close() did before.
DtorClosesAlways == TRUE

\* ~RecordFileReader(): Close() unless record_fd_ is -1.
DtorCloses == record_fd_ # ClosedFd

Dtor ==
    IF DtorCloses THEN CloseBody
    ELSE UNCHANGED <<closeCalls, mapped, unmaps, staleUnmaps, fdOpen, fdCloses,
                     record_fd_, mmap_addr_, mmap_len_>>

Quiet(name, out) ==
    /\ call' = name
    /\ outcome' = out
    /\ result' = <<>>
    /\ reads' = {}

(***************************************************************************)
(* CreateInstance(filename), first half: open() and the constructor.  A    *)
(* failed open returns nullptr with nothing constructed.                   *)
(***************************************************************************)
CreateInstance ==
    /\ life = "none"
    /\ \E openOk \in BOOLEAN :
          IF openOk
          THEN /\ life' = "constructed"
               /\ fdOpen' = TRUE
               /\ record_fd_' = Fd
               /\ mmap_addr_' = "null"
               /\ mmap_len_' = 0
               /\ Quiet("CreateInstance", "constructed")
          ELSE /\ life' = "noinstance"
               /\ Quiet("CreateInstance", "nullptr")
               /\ UNCHANGED <<readerVars, fdOpen>>
    /\ UNCHANGED <<fileVars, feature_sections_, mapped, walkVars, closeVars, scans, calls>>

(***************************************************************************)
(* CreateInstance, second half: MmapFile().  lseek or mmap may fail (mmap  *)
(* of an empty file always does); the unique_ptr then destroys the reader  *)
(* and nullptr is returned.                                                *)
(***************************************************************************)
MmapFile ==
    /\ life = "constructed"
    /\ \E seekOk, mapOk \in BOOLEAN :
          IF seekOk /\ mapOk /\ fileLen > 0
          THEN /\ life' = "alive"
               /\ mmap_addr_' = "base"
               /\ mmap_len_' = fileLen
               /\ mapped' = TRUE
               /\ Quiet("MmapFile", "reader")
               /\ UNCHANGED <<record_fd_, fdOpen, closeCalls, fdCloses, unmaps,
                              staleUnmaps>>
          ELSE /\ life' = "destroyed"
               /\ Dtor
               /\ Quiet("MmapFile", "nullptr")
    /\ UNCHANGED <<fileVars, feature_sections_, walkVars, explicitCloses, scans, calls>>

\* An explicit reader->Close().
Close ==
    /\ life = "alive"
    /\ pc = "idle"
    /\ explicitCloses < MaxExplicitClose
    /\ explicitCloses' = explicitCloses + 1
    /\ CloseBody
    /\ call' = "Close"
    /\ outcome' = IF mapped /\ fdOpen /\ record_fd_ = Fd THEN "true" ELSE "false"
    /\ result' = <<>>
    /\ reads' = {}
    /\ life' = life
    /\ UNCHANGED <<fileVars, feature_sections_, walkVars, scans, calls>>

\* The owner drops the reader.
Destroy ==
    /\ life = "alive"
    /\ pc = "idle"
    /\ life' = "destroyed"
    /\ Dtor
    /\ Quiet("~RecordFileReader", "ok")
    /\ UNCHANGED <<fileVars, feature_sections_, walkVars, explicitCloses, scans, calls>>

(***************************************************************************)
(* A call on a reader whose mapping was released dereferences a dangling   *)
(* mmap_addr_: undefined, so it faults or returns whatever the address     *)
(* range holds by now.                                                     *)
(***************************************************************************)
StaleOutcomes == {"segv", "stale"}

StaleCall(name) ==
    /\ call' = name
    /\ outcome' \in StaleOutcomes
    /\ result' = <<>>
    /\ reads' = {}

\* An out-of-mapping read is undefined: the call faults, or goes on with the
\* zero fill it read.
Outcomes(rs, normal) ==
    IF ReadsPast(rs, mmap_len_) = {} THEN {normal} ELSE {normal, "segv"}

Ready == life = "alive" /\ pc = "idle"

HeaderRead == <<0, SizeofFileHeader>>

\* FileHeader(): the pointer itself, nothing is dereferenced.
FileHeader ==
    /\ Ready
    /\ call' = "FileHeader"
    /\ outcome' = "ok"
    /\ result' = <<0>>
    /\ reads' = {}
    /\ UNCHANGED <<fileVars, readerVars, feature_sections_, osVars, life, walkVars,
                   closeVars, scans, calls>>

\* The pointers AttrSection() returns for a count of n.
AttrPointers(n) == [i \in 1..n |-> header.attrs.offset + (i - 1) * SizeofFileAttr]

AttrSection ==
    /\ Ready
    /\ IF ~mapped THEN StaleCall("AttrSection")
       ELSE \E c \in UDiv(header.attrs.size, header.attr_size) :
               /\ call' = "AttrSection"
               /\ reads' = {HeaderRead}
               /\ IF c.trap
                  THEN outcome' = "sigfpe" /\ result' = <<>>
                  ELSE outcome' = "ok" /\ result' = AttrPointers(c.q)
    /\ UNCHANGED <<fileVars, readerVars, feature_sections_, osVars, life, walkVars,
                   closeVars, scans, calls>>

\* The reads and the value of IdsForAttr(attr) for the attr at offset a.
IdReads(a) ==
    LET ids == AttrAt(a).ids
    IN  {<<a, a + SizeofFileAttr>>} \cup
        {<<ids.offset + (i - 1) * SizeofId, ids.offset + i * SizeofId>> :
            i \in 1..(ids.size \div SizeofId)}

IdValues(a) ==
    LET ids == AttrAt(a).ids
    IN  [i \in 1..(ids.size \div SizeofId) |-> IdAt(ids.offset + (i - 1) * SizeofId)]

\* IdsForAttr(attr), attr one of the pointers AttrSection() gave.
IdsForAttr ==
    /\ Ready
    /\ IF ~mapped THEN StaleCall("IdsForAttr")
       ELSE /\ header.attr_size # 0
            /\ \E a \in Range(AttrPointers(header.attrs.size \div header.attr_size)) :
                  /\ call' = "IdsForAttr"
                  /\ reads' = IdReads(a)
                  /\ outcome' \in Outcomes(IdReads(a), "ok")
                  /\ result' = IF outcome' = "ok" THEN IdValues(a) ELSE <<>>
    /\ UNCHANGED <<fileVars, readerVars, feature_sections_, osVars, life, walkVars,
                   closeVars, scans, calls>>

(***************************************************************************)
(* The record stream.  Record k of the stream starts where record k-1      *)
(* ends; the perf_event_header read at offset o is that of the first       *)
(* record starting at o.                                                   *)
(***************************************************************************)
StartOf(k) == DataOffset + SumSizes(SubSeq(stream, 1, k - 1))

HeaderAt(o) ==
    LET ks == {k \in 1..Len(stream) : StartOf(k) = o}
    IN  IF ks # {} /\ InMapping(o, o + SizeofEventHeader)
        THEN stream[CHOOSE k \in ks : \A j \in ks : k <= j]
        ELSE ZeroHeader

\* ReadRecordFromBuffer(attr, header): the decoded Record.  A sample carries
\* its time in time_data, any other record in the sample_id suffix.
ReadRecordFromBuffer(attr, h, o) ==
    [type |-> h.type,
     time_data |-> IF h.type = PERF_RECORD_SAMPLE /\ attr.sample_time THEN h.time ELSE 0,
     sample_id_time |-> IF h.type # PERF_RECORD_SAMPLE /\ attr.sample_time
                           /\ attr.sample_id_all THEN h.time ELSE 0,
     at |-> o]

\* A comparator that breaks the tie of equal times the other way round.
IsRecordHappensBeforeSampleFirst(r1, r2) ==
    LET is_r1_sample == r1.type = PERF_RECORD_SAMPLE
        is_r2_sample == r2.type = PERF_RECORD_SAMPLE
        time1 == IF is_r1_sample THEN r1.time_data ELSE r1.sample_id_time
        time2 == IF is_r2_sample THEN r2.time_data ELSE r2.sample_id_time
    IN  IF time1 # time2 THEN time1 < time2
        ELSE IF is_r1_sample # is_r2_sample THEN is_r1_sample
        ELSE FALSE

IsRecordHappensBefore(r1, r2) ==
    LET is_r1_sample == r1.type = PERF_RECORD_SAMPLE
        is_r2_sample == r2.type = PERF_RECORD_SAMPLE
        time1 == IF is_r1_sample THEN r1.time_data ELSE r1.sample_id_time
        time2 == IF is_r2_sample THEN r2.time_data ELSE r2.sample_id_time
    IN  IF time1 # time2 THEN time1 < time2
        ELSE IF is_r1_sample # is_r2_sample THEN ~is_r1_sample
        ELSE FALSE

(***************************************************************************)
(* std::sort(first, last, comp): some permutation in which no element is   *)
(* before one that comp puts before it; which one, among equivalent        *)
(* elements, is unspecified.                                               *)
(***************************************************************************)
Perms(n) == {f \in [1..n -> 1..n] : \A i, j \in 1..n : i # j => f[i] # f[j]}

StdSort(s) ==
    {[i \in 1..Len(s) |-> s[f[i]]] : f \in
        {g \in Perms(Len(s)) :
            \A i, j \in 1..Len(s) : i < j => ~IsRecordHappensBefore(s[g[j]], s[g[i]])}}

DataEnd == header.data.offset + header.data.size

\* The CHECK left out.
AttrCheckOff(n) == TRUE

\* CHECK(file_attrs.size() > 0)
AttrCheck(n) == n > 0

\* The perf_event_attr of the first FileAttr, the decoding context.
FirstAttr == AttrAt(header.attrs.offset)

FirstAttrRead ==
    <<header.attrs.offset, header.attrs.offset + SizeofFileAttr - SizeofSectionDesc>>

(***************************************************************************)
(* DataSection(), up to the loop: AttrSection(), CHECK(file_attrs.size() > *)
(* 0), the copy of file_attrs[0]->attr, and the two cursors.               *)
(***************************************************************************)
DataSectionBegin ==
    /\ Ready
    /\ IF ~mapped
       THEN StaleCall("DataSection") /\ UNCHANGED walkVars
       ELSE \E c \in UDiv(header.attrs.size, header.attr_size) :
               /\ call' = "DataSection"
               /\ result' = <<>>
               /\ IF c.trap
                  THEN /\ outcome' = "sigfpe"
                       /\ reads' = {HeaderRead}
                       /\ UNCHANGED walkVars
                  ELSE IF ~AttrCheck(c.q)
                  THEN /\ outcome' = "fatal"
                       /\ reads' = {HeaderRead}
                       /\ UNCHANGED walkVars
                  ELSE /\ reads' = {HeaderRead, FirstAttrRead}
                       /\ outcome' \in Outcomes({FirstAttrRead}, "running")
                       /\ IF outcome' = "running"
                          THEN pc' = "walk" /\ p' = header.data.offset /\ steps' = 0
                          ELSE UNCHANGED walkVars
    /\ UNCHANGED <<fileVars, readerVars, feature_sections_, osVars, life, closeVars,
                   scans, calls>>

\* A loop that pushes every record it comes to.
FitsUnchecked(h) == TRUE

\* Whether the loop pushes the record whose header h was read at p.
Fits(h) == p + h.size <= DataEnd

\* The bytes one iteration reads: the header, and the record when it is decoded.
StepReads(h) ==
    {<<p, p + SizeofEventHeader>>} \cup
    (IF Fits(h) /\ h.size > SizeofEventHeader THEN {<<p, p + h.size>>} ELSE {})

(***************************************************************************)
(* One iteration of while (p < end): read the header at p, push the        *)
(* decoded record when it fits, advance p by header->size.                 *)
(***************************************************************************)
WalkStep ==
    /\ life = "alive"
    /\ pc = "walk"
    /\ p < DataEnd
    /\ steps < MaxWalkSteps
    /\ LET h == HeaderAt(p)
       IN  /\ reads' = reads \cup StepReads(h)
           /\ outcome' \in Outcomes(StepReads(h), "running")
           /\ IF outcome' = "running"
              THEN /\ result' = IF Fits(h)
                                THEN Append(result, ReadRecordFromBuffer(FirstAttr, h, p))
                                ELSE result
                   /\ p' = p + h.size
                   /\ steps' = steps + 1
                   /\ pc' = pc
              ELSE /\ result' = <<>>
                   /\ pc' = "idle"
                   /\ UNCHANGED <<p, steps>>
    /\ call' = call
    /\ UNCHANGED <<fileVars, readerVars, feature_sections_, osVars, life, closeVars,
                   scans, calls>>

\* Whether DataSection() sorts what it read.
SortsByTime(attr) == attr.sample_time /\ attr.sample_id_all

\* DataSection(), after the loop: the sort, and the return.
DataSectionEnd ==
    /\ life = "alive"
    /\ pc = "walk"
    /\ ~(p < DataEnd)
    /\ pc' = "idle"
    /\ outcome' = "ok"
    /\ result' \in (IF SortsByTime(FirstAttr) THEN StdSort(result) ELSE {result})
    /\ UNCHANGED <<fileVars, readerVars, feature_sections_, osVars, life, p, steps, call,
                   reads, closeVars, scans, calls>>

(***************************************************************************)
(* The feature bitmap and the table of section descriptors, which the file *)
(* holds right after the data region.                                      *)
(***************************************************************************)
RECURSIVE Pow2(_)
Pow2(j) == IF j = 0 THEN 1 ELSE 2 * Pow2(j - 1)

\* header->features[i] & (1 << j), i counted from 0
BitSet(i, j) == (header.features[i + 1] \div Pow2(j)) % 2 = 1

\* An inner loop that takes the bits of a byte from the high end.
RECURSIVE ScanBitsHighFirst(_, _)
ScanBitsHighFirst(i, j) ==
    IF j >= BitsPerByte THEN <<>>
    ELSE ScanBitsHighFirst(i, j + 1) \o
         (IF BitSet(i, j) THEN <<i * BitsPerByte + j>> ELSE <<>>)

\* The inner loop from bit j on: the ids of byte i's set bits.
RECURSIVE ScanBits(_, _)
ScanBits(i, j) ==
    IF j >= BitsPerByte THEN <<>>
    ELSE (IF BitSet(i, j) THEN <<i * BitsPerByte + j>> ELSE <<>>) \o ScanBits(i, j + 1)

\* The outer loop from byte i on.
RECURSIVE ScanBytes(_)
ScanBytes(i) ==
    IF i >= Len(header.features) THEN <<>>
    ELSE ScanBits(i, 0) \o ScanBytes(i + 1)

TableOffset == DataOffset + header.data.size

\* The SectionDesc at byte offset o.
DescAt(o) ==
    LET k == (o - TableOffset) \div SizeofSectionDesc + 1
    IN  IF /\ o >= TableOffset
           /\ (o - TableOffset) % SizeofSectionDesc = 0
           /\ k <= Len(descTable)
           /\ InMapping(o, o + SizeofSectionDesc)
        THEN descTable[k] ELSE Desc(0, 0)

\* Position n of the list of features is paired with the n-th descriptor from
\* feature_section_offset on.
DescPtr(n) == header.data.offset + header.data.size + (n - 1) * SizeofSectionDesc

\* What the body of if (feature_sections_.empty()) inserts, and reads.
ScannedSections ==
    LET features == ScanBytes(0)
    IN  [id \in Range(features) |->
            DescAt(DescPtr(CHOOSE n \in 1..Len(features) : features[n] = id))]

ScanReads ==
    {HeaderRead} \cup
    {<<DescPtr(n), DescPtr(n) + SizeofSectionDesc>> : n \in 1..Len(ScanBytes(0))}

\* The guard of the scan.
CacheEmpty == DOMAIN feature_sections_ = {}

(***************************************************************************)
(* FeatureSectionDescriptors()                                             *)
(***************************************************************************)
FeatureSectionDescriptors ==
    /\ Ready
    /\ calls < MaxCalls
    /\ calls' = calls + 1
    /\ IF CacheEmpty
       THEN IF ~mapped
            THEN /\ StaleCall("FeatureSectionDescriptors")
                 /\ UNCHANGED <<feature_sections_, scans>>
            ELSE /\ call' = "FeatureSectionDescriptors"
                 /\ scans' = scans + 1
                 /\ reads' = ScanReads
                 /\ outcome' \in Outcomes(ScanReads, "ok")
                 /\ feature_sections_' =
                       IF outcome' = "ok" THEN ScannedSections ELSE feature_sections_
                 /\ result' = IF outcome' = "ok" THEN <<ScannedSections>> ELSE <<>>
       ELSE /\ call' = "FeatureSectionDescriptors"
            /\ outcome' = "ok"
            /\ reads' = {}
            /\ result' = <<feature_sections_>>
            /\ UNCHANGED <<feature_sections_, scans>>
    /\ UNCHANGED <<fileVars, readerVars, osVars, life, walkVars, closeVars>>

(***************************************************************************)
(* The bytes of the feature payload.                                       *)
(***************************************************************************)
ByteAt(o) ==
    IF o >= payloadAt /\ o < payloadAt + Len(payload) /\ InMapping(o, o + 1)
    THEN payload[o - payloadAt + 1] ELSE 0

\* MoveFromBinaryFormat(uint32_t&, p): the four bytes at p, low byte first.
U32At(o) ==
    ByteAt(o) + 256 * ByteAt(o + 1) + 65536 * ByteAt(o + 2) + 16777216 * ByteAt(o + 3)

\* std::string(const char* p): the bytes from p up to the first NUL.
RECURSIVE CStringAt(_)
CStringAt(o) == IF ByteAt(o) = 0 THEN <<>> ELSE <<ByteAt(o)>> \o CStringAt(o + 1)

\* DataAtOffset(offset): the pointer, for an offset inside the mapping.
DataAtOffsetOk(o) == o <= mmap_len_

\* CHECK_LE(p + len, end)
LenCheck(cur, len, end) == cur + len <= end

\* The for loop of ReadCmdlineFeature from iteration i on.
RECURSIVE ReadArgs(_, _, _, _, _, _)
ReadArgs(i, arg_count, cur, end, cmdline, rs) ==
    IF ~(i < arg_count) THEN [outcome |-> "ok", cmdline |-> cmdline, reads |-> rs]
    ELSE LET len == U32At(cur)
             at == cur + SizeofU32
             rs2 == rs \cup {<<cur, at>>}
             str == CStringAt(at)
         IN  IF ~LenCheck(at, len, end)
             THEN [outcome |-> "fatal", cmdline |-> <<>>, reads |-> rs2]
             ELSE ReadArgs(i + 1, arg_count, at + len, end, Append(cmdline, str),
                           rs2 \cup {<<at, at + Len(str) + 1>>})

\* ReadCmdlineFeature() once the section is found.
ReadCmdline(section) ==
    IF ~(DataAtOffsetOk(section.offset) /\ DataAtOffsetOk(section.offset + section.size))
    THEN [outcome |-> "range", cmdline |-> <<>>, reads |-> {}]
    ELSE LET cur == section.offset
             end == section.offset + section.size
             arg_count == U32At(cur)
             rs == {<<cur, cur + SizeofU32>>}
         IN  IF ~(cur + SizeofU32 <= end)
             THEN [outcome |-> "fatal", cmdline |-> <<>>, reads |-> rs]
             ELSE ReadArgs(0, arg_count, cur + SizeofU32, end, <<>>, rs)

(***************************************************************************)
(* ReadCmdlineFeature(): FeatureSectionDescriptors(), the lookup of        *)
(* FEAT_CMDLINE, and the decoding of its section.                          *)
(***************************************************************************)
ReadCmdlineFeature ==
    /\ Ready
    /\ calls < MaxCalls
    /\ calls' = calls + 1
    /\ call' = "ReadCmdlineFeature"
    /\ IF CacheEmpty /\ ~mapped
       THEN /\ outcome' \in StaleOutcomes
            /\ result' = <<>>
            /\ reads' = {}
            /\ UNCHANGED <<feature_sections_, scans>>
       ELSE LET scanned == CacheEmpty
                map == IF scanned THEN ScannedSections ELSE feature_sections_
                rs == IF scanned THEN ScanReads ELSE {}
            IN  /\ scans' = IF scanned THEN scans + 1 ELSE scans
                /\ IF FEAT_CMDLINE \notin DOMAIN map
                   THEN /\ reads' = rs
                        /\ outcome' \in Outcomes(rs, "ok")
                        /\ result' = <<>>
                        /\ feature_sections_' =
                              IF outcome' = "ok" THEN map ELSE feature_sections_
                   ELSE IF ~mapped
                   THEN /\ reads' = {}
                        /\ outcome' \in StaleOutcomes
                        /\ result' = <<>>
                        /\ feature_sections_' = map
                   ELSE LET r == ReadCmdline(map[FEAT_CMDLINE])
                        IN  /\ reads' = rs \cup r.reads
                            /\ outcome' \in Outcomes(rs \cup r.reads, r.outcome)
                            /\ result' = IF outcome' = "ok" THEN r.cmdline ELSE <<>>
                            /\ feature_sections_' = map
    /\ UNCHANGED <<fileVars, readerVars, osVars, life, walkVars, closeVars>>

(***************************************************************************)
(* The files the reader is run on.                                         *)
(***************************************************************************)
RecSizes == {0, SizeofEventHeader, 2 * SizeofEventHeader}

RecordTypes == {PERF_RECORD_MMAP, PERF_RECORD_SAMPLE}

\* Two timestamps: enough for records to differ in time and to tie.
Times == {0, 1}

Records == [size : RecSizes, type : RecordTypes, time : Times]

\* How many bytes of the stream the data region lacks (cut), and how many
\* bytes of the data region the file lacks (fcut).
NoCut == [cut |-> 0, fcut |-> 0]

Cuts ==
    {[cut |-> SizeofU32, fcut |-> 0], [cut |-> SizeofEventHeader, fcut |-> 0],
     [cut |-> 0, fcut |-> SizeofU32]}

NoFeatures == [i \in 1..FeatureBytes |-> 0]

\* The bitmap with exactly the bits of ids set.
RECURSIVE ByteOf(_, _, _)
ByteOf(ids, i, j) ==
    IF j >= BitsPerByte THEN 0
    ELSE (IF i * BitsPerByte + j \in ids THEN Pow2(j) ELSE 0) + ByteOf(ids, i, j + 1)

Bitmap(ids) == [i \in 1..FeatureBytes |-> ByteOf(ids, i - 1, 0)]

FeatureIds == 0..(FeatureBytes * BitsPerByte - 1)

U32LE(n) == <<n % 256, (n \div 256) % 256, (n \div 65536) % 256, (n \div 16777216) % 256>>

\* An argument as the cmdline section holds it: its length, then its bytes.
Args == [len : 0..MaxArgLen, bytes : SeqsUpTo({0, 97}, MaxArgLen)]

RECURSIVE EncodeArgs(_)
EncodeArgs(as) ==
    IF as = <<>> THEN <<>>
    ELSE U32LE(as[1].len) \o as[1].bytes \o EncodeArgs(Tail(as))

EncodeCmdline(n, as) == U32LE(n) \o EncodeArgs(as)

\* "a" and "" as a writer lays them out.
FixtureCmdline ==
    EncodeCmdline(2, <<[len |-> 2, bytes |-> <<97, 0>>], [len |-> 1, bytes |-> <<0>>]>>)

FixtureAttrs ==
    <<[sample_time |-> TRUE, sample_id_all |-> TRUE, ids |-> Desc(IdsOffset, 2 * SizeofId)],
      [sample_time |-> TRUE, sample_id_all |-> TRUE, ids |-> Desc(IdsOffset, SizeofId)]>>

FixtureIds == <<7, 5>>

\* The state of a reader CreateInstance() returned, and of the counters.
NoCall ==
    /\ pc = "idle"
    /\ p = 0
    /\ steps = 0
    /\ result = <<>>
    /\ reads = {}
    /\ feature_sections_ = <<>>
    /\ explicitCloses = 0 /\ closeCalls = 0 /\ fdCloses = 0
    /\ unmaps = 0 /\ staleUnmaps = 0 /\ scans = 0 /\ calls = 0

Created ==
    /\ life = "alive"
    /\ record_fd_ = Fd
    /\ mmap_addr_ = "base"
    /\ mmap_len_ = fileLen
    /\ fdOpen = TRUE
    /\ mapped = TRUE
    /\ call = "MmapFile"
    /\ outcome = "reader"
    /\ NoCall

\* The records the walk can come to: none follows a record of length 0, at
\* which the cursor stays.
Streams ==
    {s \in SeqsUpTo(Records, MaxRecs) : \A k \in 1..(Len(s) - 1) : s[k].size > 0}

GoodAttrShape == [attr_size |-> SizeofFileAttr, size |-> SizeofFileAttr]

\* An attribute table too short for one attribute, and an attr_size of 0.
BadAttrShapes ==
    {[attr_size |-> SizeofFileAttr, size |-> SizeofFileAttr - 1],
     [attr_size |-> 0, size |-> SizeofFileAttr]}

\* The bytes the stream takes in the file: a last record that declares less
\* than its header still has the header.
Extent(s) ==
    IF s # <<>> /\ s[Len(s)].size < SizeofEventHeader
    THEN SumSizes(s) - s[Len(s)].size + SizeofEventHeader
    ELSE SumSizes(s)

\* The file with this attribute table and this much of the stream.
DataFile(sh, c, st, sia) ==
    /\ Extent(stream) >= c.cut + c.fcut
    /\ header = [attr_size |-> sh.attr_size,
                 attrs |-> Desc(AttrOffset, sh.size),
                 data |-> Desc(DataOffset, Extent(stream) - c.cut),
                 features |-> NoFeatures]
    /\ fileLen = DataOffset + Extent(stream) - c.cut - c.fcut
    /\ attrTable = <<[sample_time |-> st, sample_id_all |-> sia, ids |-> Desc(IdsOffset, 0)]>>
    /\ idTable = <<>>
    /\ descTable = <<>>
    /\ payloadAt = fileLen
    /\ payload = <<>>

(***************************************************************************)
(* DataSection() on files that differ in the record stream and, the file   *)
(* being whole, in the first attribute's flags; or in how much of the      *)
(* stream the data region and the file hold; or in the attribute table.    *)
(***************************************************************************)
InitData ==
    /\ stream \in Streams
    /\ \/ \E st, sia \in BOOLEAN : DataFile(GoodAttrShape, NoCut, st, sia)
       \/ \E c \in Cuts : DataFile(GoodAttrShape, c, TRUE, TRUE)
       \/ \E sh \in BadAttrShapes : DataFile(sh, NoCut, TRUE, TRUE)
    /\ Created

NextData == DataSectionBegin \/ WalkStep \/ DataSectionEnd

SpecData == InitData /\ [][NextData]_vars

(***************************************************************************)
(* Properties of DataSection().                                            *)
(***************************************************************************)
IsSample(r) == r.type = PERF_RECORD_SAMPLE

\* The timestamp of a decoded record.
TimeOf(r) == IF IsSample(r) THEN r.time_data ELSE r.sample_id_time

IsPermutation(a, b) ==
    /\ Len(a) = Len(b)
    /\ \E f \in Perms(Len(a)) : \A i \in 1..Len(a) : b[i] = a[f[i]]

TimeOrdered(out) ==
    \A i, j \in 1..Len(out) :
        i < j => /\ TimeOf(out[i]) <= TimeOf(out[j])
                 /\ (TimeOf(out[i]) = TimeOf(out[j]) /\ IsSample(out[i]) # IsSample(out[j]))
                       => ~IsSample(out[i])

DataSectionReturned == call = "DataSection" /\ pc = "idle" /\ outcome = "ok"

\* C1: when the first attribute has PERF_SAMPLE_TIME and sample_id_all, what
\* DataSection() returns is a permutation of the records its loop decoded, in
\* which times never decrease and, of two records of equal time of which one
\* is a sample, the one that is not a sample comes first.
C1_SortedByTime ==
    [][(pc = "walk" /\ pc' = "idle" /\ outcome' = "ok" /\ SortsByTime(FirstAttr))
          => IsPermutation(result, result') /\ TimeOrdered(result')]_vars

\* The fixture of the spec: times (1, 0, 0), the second record not a sample,
\* the third a sample, returned as second, third, first.
C1_Witness ==
    /\ DataSectionReturned
    /\ SortsByTime(FirstAttr)
    /\ Len(result) = 3
    /\ result[1].at = StartOf(2) /\ ~IsSample(result[1]) /\ TimeOf(result[1]) = 0
    /\ result[2].at = StartOf(3) /\ IsSample(result[2]) /\ TimeOf(result[2]) = 0
    /\ result[3].at = StartOf(1) /\ TimeOf(result[3]) = 1

\* The attribute table holds an attribute, and the mapping holds it.
HasAttr ==
    /\ header.attr_size # 0
    /\ header.attrs.size \div header.attr_size > 0
    /\ header.attrs.offset + SizeofFileAttr <= mmap_len_

\* Record k is a truncated trailing record: its header is in the data region,
\* its declared length passes the end of the region.
TruncatedAt(k) ==
    /\ k \in 1..Len(stream)
    /\ StartOf(k) + SizeofEventHeader <= DataEnd
    /\ StartOf(k) + stream[k].size > DataEnd
    /\ DataEnd <= mmap_len_

\* C2: on a data region (inside the mapping) whose last record declares more
\* bytes than remain, DataSection() ends without an error, having read one
\* length prefix per record, and returns one record fewer than the prefixes
\* it read: every record before the truncated one, and not that one.
C2_TruncatedDropped ==
    \A k \in 1..Len(stream) :
        (call = "DataSection" /\ HasAttr /\ TruncatedAt(k)) =>
            /\ outcome \in {"running", "ok"}
            /\ steps <= k
            /\ pc = "idle" =>
                  /\ outcome = "ok"
                  /\ steps = k
                  /\ Len(result) = steps - 1
                  /\ {result[i].at : i \in 1..Len(result)} = {StartOf(j) : j \in 1..(k - 1)}

C2_Witness ==
    /\ DataSectionReturned
    /\ HasAttr
    /\ TruncatedAt(3)
    /\ steps = 3
    /\ Len(result) = 2

\* The reads of the call that touch the data region or what follows it.
DataReads == {r \in reads : r[2] > header.data.offset}

\* C9: with an attribute table of no entry, DataSection() fails at its CHECK:
\* it never enters the loop, reads no byte of the data region, decodes no
\* record and returns nothing.
C9_NoAttrFails ==
    (call = "DataSection" /\ header.attr_size # 0
        /\ header.attrs.size \div header.attr_size = 0) =>
        /\ pc = "idle"
        /\ outcome = "fatal"
        /\ result = <<>>
        /\ DataReads = {}

C9_Witness ==
    /\ call = "DataSection"
    /\ header.attr_size # 0
    /\ header.attrs.size \div header.attr_size = 0
    /\ stream # <<>>
    /\ outcome = "fatal"

\* C10: the walk ends after no more iterations than the data region has
\* bytes (stated for the walks that read inside the mapping only).
C10_WalkTerminates ==
    (pc = "walk" /\ ReadsPast(reads, mmap_len_) = {}) => steps <= header.data.size

\* C6: no call reads a byte at an offset at or past the mapped length.
C6_ReadsInsideMapping == ReadsPast(reads, mmap_len_) = {}

(***************************************************************************)
(* FeatureSectionDescriptors() and ReadCmdlineFeature() on files that      *)
(* differ in the feature bitmap and in the descriptors of the table.       *)
(***************************************************************************)
FeatureSets == {Range(s) : s \in SeqsUpTo(FeatureIds, MaxFeat)}

\* The file with these feature bits, these descriptors and this payload.
FeatureFile(ids, table, bytes) ==
    /\ header = [attr_size |-> SizeofFileAttr,
                 attrs |-> Desc(AttrOffset, 2 * SizeofFileAttr),
                 data |-> Desc(DataOffset, 0),
                 features |-> Bitmap(ids)]
    /\ attrTable = FixtureAttrs
    /\ idTable = FixtureIds
    /\ stream = <<>>
    /\ descTable = table
    /\ payloadAt = DataOffset + Len(table) * SizeofSectionDesc
    /\ payload = bytes
    /\ fileLen = DataOffset + Len(table) * SizeofSectionDesc + Len(bytes)

InitFeat ==
    /\ \E ids \in FeatureSets :
          LET n == Cardinality(ids)
              at == DataOffset + n * SizeofSectionDesc
          IN  \E table \in [1..n -> {Desc(at, Len(FixtureCmdline)), Desc(at, SizeofU32)}] :
                 FeatureFile(ids, table, FixtureCmdline)
    /\ Created

NextFeat == FeatureSectionDescriptors \/ ReadCmdlineFeature

SpecFeat == InitFeat /\ [][NextFeat]_vars

\* The ids of the bits set in the bitmap, and the place of one among them.
SetBits == {id \in FeatureIds : BitSet(id \div BitsPerByte, id % BitsPerByte)}

Rank(id) == Cardinality({x \in SetBits : x <= id})

\* C3: what FeatureSectionDescriptors() returns maps the ids of the set bits
\* and no other id, the id of the n-th set bit to the n-th descriptor of the
\* table after the data region.
C3_FeaturesByPosition ==
    (call = "FeatureSectionDescriptors" /\ outcome = "ok") =>
        /\ DOMAIN result[1] = SetBits
        /\ \A id \in SetBits : result[1][id] = descTable[Rank(id)]
        /\ feature_sections_ = result[1]

\* Bits 2 and 5 set, with descriptors that differ.
C3_Witness ==
    /\ call = "FeatureSectionDescriptors"
    /\ outcome = "ok"
    /\ SetBits = {2, 5}
    /\ result[1][2] = descTable[1]
    /\ result[1][5] = descTable[2]
    /\ descTable[1] # descTable[2]

\* C8: the bitmap is scanned on the first call only.
C8_ScannedOnce == scans <= 1

(***************************************************************************)
(* ReadCmdlineFeature() on files that differ in the bytes of the cmdline   *)
(* section and in the size its descriptor gives it.                        *)
(***************************************************************************)
InitCmd ==
    /\ \E n \in 0..MaxArgs, as \in SeqsUpTo(Args, MaxArgs) :
          \E size \in 0..Len(EncodeCmdline(n, as)) :
              FeatureFile({FEAT_CMDLINE},
                          <<Desc(DataOffset + SizeofSectionDesc, size)>>,
                          EncodeCmdline(n, as))
    /\ Created

SpecCmd == InitCmd /\ [][NextFeat]_vars

\* The reads of the call that start in the section of the cmdline feature.
SectionReads(section) == {r \in reads : r[1] >= section.offset}

\* C7: of the bytes ReadCmdlineFeature() reads from the section's start on
\* (the argument count, the lengths, the arguments), none is at or past
\* section.offset + section.size.
C7_ReadsInsideSection ==
    (call = "ReadCmdlineFeature" /\ FEAT_CMDLINE \in DOMAIN feature_sections_) =>
        LET section == feature_sections_[FEAT_CMDLINE]
        IN  \A r \in SectionReads(section) : r[2] <= section.offset + section.size

(***************************************************************************)
(* The lifetime of a reader: CreateInstance() on a file, the calls on the  *)
(* reader, Close(), and the destructor.                                    *)
(***************************************************************************)
FixtureStream ==
    <<[size |-> SizeofEventHeader, type |-> PERF_RECORD_MMAP, time |-> 1],
      [size |-> SizeofEventHeader, type |-> PERF_RECORD_MMAP, time |-> 0],
      [size |-> SizeofEventHeader, type |-> PERF_RECORD_SAMPLE, time |-> 0]>>

Init ==
    /\ header = [attr_size |-> SizeofFileAttr,
                 attrs |-> Desc(AttrOffset, 2 * SizeofFileAttr),
                 data |-> Desc(DataOffset, SumSizes(FixtureStream)),
                 features |-> Bitmap({FEAT_CMDLINE})]
    /\ attrTable = FixtureAttrs
    /\ idTable = FixtureIds
    /\ stream = FixtureStream
    /\ descTable = <<Desc(DataOffset + SumSizes(FixtureStream) + SizeofSectionDesc,
                          Len(FixtureCmdline))>>
    /\ payloadAt = DataOffset + SumSizes(FixtureStream) + SizeofSectionDesc
    /\ payload = FixtureCmdline
    \* the file, or an empty file
    /\ fileLen \in {0, DataOffset + SumSizes(FixtureStream) + SizeofSectionDesc
                          + Len(FixtureCmdline)}
    /\ life = "none"
    /\ record_fd_ = ClosedFd
    /\ mmap_addr_ = "null"
    /\ mmap_len_ = 0
    /\ fdOpen = FALSE
    /\ mapped = FALSE
    /\ call = "none"
    /\ outcome = "none"
    /\ NoCall

Next ==
    \/ CreateInstance
    \/ MmapFile
    \/ Close
    \/ Destroy
    \/ FileHeader
    \/ AttrSection
    \/ IdsForAttr
    \/ DataSectionBegin
    \/ WalkStep
    \/ DataSectionEnd
    \/ FeatureSectionDescriptors
    \/ ReadCmdlineFeature

Spec == Init /\ [][Next]_vars

\* C4: a reader that was closed explicitly at most once has, once destroyed,
\* run Close() exactly once: the descriptor is closed once and is no longer
\* open, and the mapping, if MmapFile() made one, is unmapped once.
C4_ReleasedOnce ==
    explicitCloses <= 1 =>
        /\ fdCloses <= 1
        /\ unmaps <= 1
        /\ life = "destroyed" =>
              /\ closeCalls = 1
              /\ fdCloses = 1
              /\ ~fdOpen
              /\ ~mapped
              /\ unmaps = (IF mmap_addr_ = "base" THEN 1 ELSE 0)

\* Close() called on a mapped reader, which is then destroyed.
C4_Witness ==
    /\ life = "destroyed"
    /\ explicitCloses = 1
    /\ mmap_addr_ = "base"
    /\ closeCalls = 1

Accessors ==
    {"FileHeader", "AttrSection", "IdsForAttr", "DataSection",
     "FeatureSectionDescriptors", "ReadCmdlineFeature"}

\* C5: an accessor called after Close() faults.
C5_AccessAfterCloseFaults ==
    (life = "alive" /\ closeCalls > 0 /\ call \in Accessors) => outcome \in {"segv", "fatal"}

=============================================================================
